---- MODULE Spec2Model ----
(***************************************************************************)
(* A model of src/src/main.rs: the worker pool of the website status       *)
(* checker.  main() spawns config.workers threads, each of which walks the *)
(* strided range (i..urls.len()).step_by(config.workers), runs             *)
(* check_website (a bounded retry loop around one blocking HTTP GET) on    *)
(* every index it visits and sends the record over an mpsc channel; main   *)
(* drops its own sender, drains the receiver into `statuses` and writes    *)
(* the output.                                                             *)
(***************************************************************************)
EXTENDS Integers, Sequences, FiniteSets, TLC

\* ------------------------------------------------------------------ bounds
MaxTargets == 3      \* urls.len() ranges over 0..MaxTargets
MaxWorkers == 2      \* config.workers ranges over 0..MaxWorkers
MaxRetries == 1      \* config.retries ranges over 0..MaxRetries in the whole run
MaxCwRetries == 3    \* config.retries ranges over 0..MaxCwRetries in the sequential runs
MaxCwTargets == 1    \* urls.len() ranges over 1..MaxCwTargets in the sequential runs
WordBits == 2        \* width of the narrowed retry count (u32, scaled down)
MaxPartTargets == 6  \* urls.len() in the specification of the striding alone
MaxPartWorkers == 4  \* config.workers in the specification of the striding alone
MaxArgs == 3         \* the command lines have up to MaxArgs arguments after the program name
MaxOver == 1         \* config.retries ranges up to 2^WordBits + MaxOver where narrowing is followed

\* ------------------------------------------------------- the environment
\* The targets the command line may name.
Urls == {"a.test", "b.test"}
\* What one HTTP GET may end in: a response with a status code (resp.status()
\* .as_u16()), or a transport error with a description (err.to_string()).
StatusCodes == {200, 404, 500}
ErrDescs == {"timeout", "refused"}

Responded(c) == [ok |-> TRUE, code |-> c, desc |-> ""]
TransportError(d) == [ok |-> FALSE, code |-> 0, desc |-> d]
RawResults == {Responded(c) : c \in StatusCodes} \cup {TransportError(d) : d \in ErrDescs}
\* The results drawn in the runs of the whole pool: one of each kind.
RunResults == {Responded(200), TransportError("timeout")}

\* ------------------------------------------------------------------ state
VARIABLES
    urls,       \* Arc<Vec<String>>: the target list (a sequence; index j is urls[j+1])
    config,     \* Config: workers, retries
    pc,         \* where the main thread is: "spawn", "collect", "write", "done"
    i,          \* the spawn loop's counter
    senders,    \* the number of live Sender handles of the channel
    rxAlive,    \* whether the Receiver has not been dropped yet
    chan,       \* the records sent and not yet received, oldest first
    statuses,   \* Vec<WebsiteStatus> collected by main
    thr,        \* the worker threads: thr[w] is worker w's position and locals
    probes,     \* history: probes[j] is the sequence of results of the GETs made for index j
    output,     \* the elements written to status.json (<<>> until written)
    pn,         \* striding alone: the length of the list
    pw,         \* striding alone: the worker count
    cursor,     \* striding alone: cursor[w] is the next index worker w's iterator yields
    visited,    \* striding alone: visited[w] is the sequence of indices yielded to worker w
    now,        \* the logical clock Instant::now() and Utc::now() read
    timing,     \* history: timing[j].spent is the sum of the durations of the GETs made
                \* for index j, timing[j].done the time the last of them completed
    args,       \* std::env::args(): the command line, program name first
    parsed,     \* the Result parse_args returned (None before it is called)
    host        \* the host: what std::thread::available_parallelism() answers (par) and
                \* what reading the --file path gives (file: None when it cannot be read)

runVars == <<urls, config, pc, i, senders, rxAlive, chan, statuses, thr, probes, output,
             now, timing>>
partVars == <<pn, pw, cursor, visited>>
argVars == <<args, parsed, host>>
auxVars == <<pn, pw, cursor, visited, args, parsed, host>>
vars == <<urls, config, pc, i, senders, rxAlive, chan, statuses, thr, probes, output,
          pn, pw, cursor, visited, now, timing, args, parsed, host>>

\* ---------------------------------------------------------------- helpers
\* Option<T> as a sequence of at most one element.
None == <<>>
Some(x) == <<x>>

\* Result<u16, String>
Ok(c) == [ok |-> TRUE, code |-> c, msg |-> ""]
Err(m) == [ok |-> FALSE, code |-> 0, msg |-> m]

\* `config.retries as u32`: the usize is narrowed to the word.
\* (AsU32Keeps is the variant that does not narrow.)
AsU32Keeps(n) == n
AsU32(n) == n % (2 ^ WordBits)

\* The `retries` every call of check_website gets.
Retries == AsU32(config.retries)

\* The range 0..=retries of check_website's loop: whether iteration k is in it.
\* (InRangeExclusive is the variant 0..retries.)
InRangeExclusive(k, retries) == k < retries
InRange(k, retries) == k <= retries

\* (i..len).step_by(step): the first index the iterator yields is its start,
\* each later one is the previous plus the step; it yields while below len.
\* (StepByNextPlusOne is the variant that forgets the step, StepByNextTwice the
\* one that steps twice, StepByStartZero the one that starts every range at 0.)
StepByStartZero(w) == 0
StepByStart(w) == w
StepByNextPlusOne(j, step) == j + 1
StepByNextTwice(j, step) == j + 2 * step
StepByNext(j, step) == j + step
StepByHasNext(j, len) == j < len

\* The message of the Err built when the loop is exhausted: the last error's
\* description after "Error: ".  log, the GETs made so far for the index, is
\* history the code does not read (FailureMessageFirst is the variant that keeps
\* the first error instead of the last).
FailureMessageFirst(last_err, log) ==
    "Error: " \o (IF log = <<>> THEN "unknown error" ELSE log[1].desc)
FailureMessage(last_err, log) ==
    "Error: " \o (IF last_err = None THEN "unknown error" ELSE last_err[1])

\* start.elapsed() read at time `at`.
Elapsed(start, at) == at - start

\* The WebsiteStatus a call that started at `start` returns at time `at` (idx is
\* history: the index the call was for).
Record(j, status, start, at) ==
    [idx |-> j, url |-> urls[j + 1], action_status |-> status,
     response_time |-> Elapsed(start, at), timestamp |-> at]

Idle == [pc |-> "unspawned", j |-> 0, k |-> 0, last_err |-> None, rec |-> None,
         start |-> 0]

\* `start` is set once, before the loop, and a new iteration leaves it alone.
\* (RestartClock is the variant with Instant::now() inside the loop.)
RestartClock(start, at) == at
KeepStart(start, at) == start

\* check_website from its loop head, k iterations done: either the next GET is to
\* be made, or the range is exhausted and the Err record is returned.
\* `at` is the time the loop head is reached.
LoopHead(t, j, k, last_err, log, at) ==
    IF InRange(k, Retries)
    THEN [t EXCEPT !.pc = "probe", !.j = j, !.k = k, !.last_err = last_err, !.rec = None,
                   !.start = KeepStart(t.start, at)]
    ELSE [t EXCEPT !.pc = "send", !.j = j, !.k = k, !.last_err = last_err,
                   !.rec = Some(Record(j, Err(FailureMessage(last_err, log)), t.start, at))]

\* The worker's `for j in ...` at the iterator's cursor j: call check_website on
\* the next index, or leave the loop, which ends the thread and drops its tx.
ForLoop(t, j) ==
    IF StepByHasNext(j, Len(urls))
    THEN LoopHead([t EXCEPT !.start = now], j, 0, None, <<>>, now)
    ELSE [t EXCEPT !.pc = "done", !.rec = None]

\* check_website's Ok arm: the response's code is returned at once, whatever it is.
\* (Variants: the arm does not return; the arm treats a 4xx or 5xx as an error.)
\* `at` is the time the GET returned.
OnResponseNoReturn(t, code, at) == LoopHead(t, t.j, t.k + 1, t.last_err, <<>>, at)
OnResponseErrorForStatus(t, code, at) ==
    IF code >= 400
    THEN LoopHead(t, t.j, t.k + 1, Some("status"), <<>>, at)
    ELSE [t EXCEPT !.pc = "send", !.rec = Some(Record(t.j, Ok(code), t.start, at))]
OnResponse(t, code, at) ==
    [t EXCEPT !.pc = "send", !.rec = Some(Record(t.j, Ok(code), t.start, at))]

\* check_website's Err arm: the error is remembered and the loop goes on.
OnError(t, desc, log, at) == LoopHead(t, t.j, t.k + 1, Some(desc), log, at)

\* The worker after a successful send: the next iteration of its for loop.
\* (AfterSendStopOnErr is the variant that leaves the loop after an Err record,
\* AfterSendKeepsRecord the one that sends a copy and keeps the record.)
AfterSendStopOnErr(t) ==
    IF t.rec[1].action_status.ok
    THEN ForLoop(t, StepByNext(t.j, config.workers))
    ELSE [t EXCEPT !.pc = "done", !.rec = None]
AfterSendKeepsRecord(t) ==
    [ForLoop(t, StepByNext(t.j, config.workers)) EXCEPT !.rec = t.rec]
AfterSend(t) == ForLoop(t, StepByNext(t.j, config.workers))

\* The channel is a FIFO queue: tx.send puts the record behind those queued.
\* (ChanSendFront is the variant of a LIFO queue.)
ChanSendFront(q, r) == <<r>> \o q
ChanSend(q, r) == Append(q, r)

\* statuses.push(received)
Push(v, r) == Append(v, r)

\* Sender handles after one is dropped (DropKeeps: the variant that leaks it).
DropKeeps(n) == n
Drop(n) == n - 1

\* The receiver's iterator ends: every sender is gone and nothing is queued.
\* (ClosedWhenEmpty is the variant that stops at the first empty queue.)
ClosedWhenEmpty == chan = <<>>
Closed == senders = 0 /\ chan = <<>>

\* u16::to_string: the decimal digits of the code.
CodeToString(c) == ToString(c)

\* The "status" field of an output element.
StatusString(s) == IF s.ok THEN CodeToString(s.code) ELSE "unknown error"

\* One element of the JSON array.
Element(r) == [url |-> r.url, status |-> StatusString(r.action_status)]

\* ------------------------------------------------------------- parse_args
\* The strings of the command line and of the file are sequences of one-character
\* strings, so that starts_with, parse and trim are computed on their characters.
FlagFile == <<"-", "-", "f", "i", "l", "e">>
FlagWorkers == <<"-", "-", "w", "o", "r", "k", "e", "r", "s">>
FlagTimeout == <<"-", "-", "t", "i", "m", "e", "o", "u", "t">>
FlagRetries == <<"-", "-", "r", "e", "t", "r", "i", "e", "s">>

\* arg.starts_with("--")
StartsWithDashes(a) == Len(a) >= 2 /\ a[1] = "-" /\ a[2] = "-"

DigitValue ==
    [c \in {"0", "1", "2", "3", "4", "5", "6", "7", "8", "9"} |->
        CASE c = "0" -> 0 [] c = "1" -> 1 [] c = "2" -> 2 [] c = "3" -> 3 [] c = "4" -> 4
          [] c = "5" -> 5 [] c = "6" -> 6 [] c = "7" -> 7 [] c = "8" -> 8 [] c = "9" -> 9]
IsDigits(a) == a # <<>> /\ \A n \in 1 .. Len(a) : a[n] \in DOMAIN DigitValue

RECURSIVE DigitsValue(_)
DigitsValue(a) ==
    IF a = <<>> THEN 0
    ELSE 10 * DigitsValue(SubSeq(a, 1, Len(a) - 1)) + DigitValue[a[Len(a)]]

\* str::parse::<usize>() / ::<u64>(): decimal digits after an optional "+"; None
\* for anything else (the strings drawn here are too short to overflow).
ParseUint(a) ==
    LET body == IF a # <<>> /\ a[1] = "+" THEN Tail(a) ELSE a
    IN IF IsDigits(body) THEN Some(DigitsValue(body)) ELSE None

ParseOk(c) == [ok |-> TRUE, config |-> c, err |-> <<>>]
ParseErr(m) == [ok |-> FALSE, config |-> <<>>, err |-> m]

\* The check after the loop: neither a file nor a URL was given.
\* (NoTargetsNever is the variant without the check.)
NoTargetsNever(c) == FALSE
NoTargets(c) == c.file = None /\ c.urls = <<>>

\* urls.push(arg.to_string())  (PushUrlFront is the variant that inserts at 0.)
PushUrlFront(us, arg) == <<arg>> \o us
PushUrl(us, arg) == Append(us, arg)

DefaultTimeout == 5
DefaultRetries == 3

\* The while loop of parse_args at position pos of the arguments a, c holding the
\* values set so far, and the check and the Ok(Config) after it.
RECURSIVE ParseLoop(_, _, _)
ParseLoop(a, pos, c) ==
    IF pos > Len(a)
    THEN IF NoTargets(c)
         THEN ParseErr(<<"Please specify --file <path> or one or more URLs.">>)
         ELSE ParseOk(c)
    ELSE LET arg == a[pos]
             missing == pos + 1 > Len(a)
             val == a[pos + 1]
         IN CASE arg = FlagFile ->
                   IF missing THEN ParseErr(<<"Missing value after --file">>)
                   ELSE ParseLoop(a, pos + 2, [c EXCEPT !.file = Some(val)])
              [] arg = FlagWorkers ->
                   IF missing THEN ParseErr(<<"Missing value after --workers">>)
                   ELSE IF ParseUint(val) = None
                        THEN ParseErr(<<"Invalid value for --workers">>)
                        ELSE ParseLoop(a, pos + 2, [c EXCEPT !.workers = ParseUint(val)[1]])
              [] arg = FlagTimeout ->
                   IF missing THEN ParseErr(<<"Missing value after --timeout">>)
                   ELSE IF ParseUint(val) = None
                        THEN ParseErr(<<"Invalid value for --timeout">>)
                        ELSE ParseLoop(a, pos + 2,
                                       [c EXCEPT !.timeout_secs = ParseUint(val)[1]])
              [] arg = FlagRetries ->
                   IF missing THEN ParseErr(<<"Missing value after --retries">>)
                   ELSE IF ParseUint(val) = None
                        THEN ParseErr(<<"Invalid value for --retries">>)
                        ELSE ParseLoop(a, pos + 2, [c EXCEPT !.retries = ParseUint(val)[1]])
              [] OTHER ->
                   IF StartsWithDashes(arg)
                   THEN ParseErr(<<"Unknown flag: ", arg>>)
                   ELSE ParseLoop(a, pos + 1, [c EXCEPT !.urls = PushUrl(@, arg)])

\* parse_args(&args): the program name is skipped; workers defaults to the host's
\* available parallelism, timeout_secs to 5, retries to 3.
parse_args(a, par) ==
    ParseLoop(a, 2, [file |-> None, urls |-> <<>>, workers |-> par,
                     timeout_secs |-> DefaultTimeout, retries |-> DefaultRetries])

\* str::trim on a line: the spaces at both ends are removed.
RECURSIVE TrimStart(_)
TrimStart(a) == IF a # <<>> /\ a[1] = " " THEN TrimStart(Tail(a)) ELSE a
RECURSIVE TrimEnd(_)
TrimEnd(a) ==
    IF a # <<>> /\ a[Len(a)] = " " THEN TrimEnd(SubSeq(a, 1, Len(a) - 1)) ELSE a
Trim(a) == TrimEnd(TrimStart(a))

\* read_urls_from_file on the lines of a readable file: the lines that are not
\* blank, trimmed, in order.
RECURSIVE read_urls_from_file(_)
read_urls_from_file(lines) ==
    IF lines = <<>> THEN <<>>
    ELSE IF Trim(Head(lines)) = <<>>
         THEN read_urls_from_file(Tail(lines))
         ELSE <<Trim(Head(lines))>> \o read_urls_from_file(Tail(lines))

\* ----------------------------------------------------------------- actions
Workers == 0 .. (config.workers - 1)

\* main: parse_args(&args).expect("Invalid arguments").
ParseArgs ==
    /\ pc = "args"
    /\ parsed' = Some(parse_args(args, host.par))
    /\ pc' = IF parsed'[1].ok THEN "startup" ELSE "panic"
    /\ UNCHANGED <<urls, config, i, senders, rxAlive, chan, statuses, thr, probes, output>>
    /\ UNCHANGED <<now, timing>>
    /\ UNCHANGED <<pn, pw, cursor, visited, args, host>>

\* main, lines 127-135: the URLs of the command line, then those of the file
\* (.expect("Failed to read URLs from file")), the client and the channel.  The
\* command line and the Config's other fields are not read after this.
Startup ==
    /\ pc = "startup"
    /\ LET c == parsed[1].config
       IN IF c.file # None /\ host.file = None
          THEN /\ pc' = "panic"
               /\ UNCHANGED <<urls, config, senders, rxAlive, thr, probes, timing,
                              args, parsed>>
          ELSE LET all == IF c.file = None THEN c.urls
                          ELSE c.urls \o read_urls_from_file(host.file[1])
               IN /\ urls' = all
                  /\ config' = [workers |-> c.workers, retries |-> c.retries]
                  /\ senders' = 1
                  /\ rxAlive' = TRUE
                  /\ thr' = [w \in 0 .. (c.workers - 1) |-> Idle]
                  /\ probes' = [j \in 0 .. (Len(all) - 1) |-> <<>>]
                  /\ timing' = [j \in 0 .. (Len(all) - 1) |-> [spent |-> 0, done |-> 0]]
                  /\ args' = <<>>
                  /\ parsed' = None
                  /\ pc' = "spawn"
    /\ UNCHANGED <<i, chan, statuses, output, now>>
    /\ UNCHANGED <<pn, pw, cursor, visited, host>>

\* main: one iteration of `for i in 0..config.workers`: clone tx, spawn thread i.
Spawn ==
    /\ pc = "spawn"
    /\ i < config.workers
    /\ senders' = senders + 1
    /\ thr' = [thr EXCEPT ![i].pc = "start"]
    /\ i' = i + 1
    /\ UNCHANGED <<urls, config, pc, rxAlive, chan, statuses, probes, output>>
    /\ UNCHANGED <<now, timing>>
    /\ UNCHANGED auxVars

\* main: the spawn loop is over; drop(tx), then start draining rx.
DropTx ==
    /\ pc = "spawn"
    /\ ~(i < config.workers)
    /\ senders' = Drop(senders)
    /\ pc' = "collect"
    /\ UNCHANGED <<urls, config, i, rxAlive, chan, statuses, thr, probes, output>>
    /\ UNCHANGED <<now, timing>>
    /\ UNCHANGED auxVars

\* main: `for received in rx` gets a record and pushes it.
Recv ==
    /\ pc = "collect"
    /\ chan # <<>>
    /\ statuses' = Push(statuses, Head(chan))
    /\ chan' = Tail(chan)
    /\ UNCHANGED <<urls, config, pc, i, senders, rxAlive, thr, probes, output>>
    /\ UNCHANGED <<now, timing>>
    /\ UNCHANGED auxVars

\* main: `for received in rx` ends, rx is dropped.
CollectEnd ==
    /\ pc = "collect"
    /\ Closed
    /\ rxAlive' = FALSE
    /\ pc' = "write"
    /\ UNCHANGED <<urls, config, i, senders, chan, statuses, thr, probes, output>>
    /\ UNCHANGED <<now, timing>>
    /\ UNCHANGED auxVars

\* main: format every status and write status.json.
WriteOutput ==
    /\ pc = "write"
    /\ output' = [n \in 1 .. Len(statuses) |-> Element(statuses[n])]
    /\ pc' = "done"
    /\ UNCHANGED <<urls, config, i, senders, rxAlive, chan, statuses, thr, probes>>
    /\ UNCHANGED <<now, timing>>
    /\ UNCHANGED auxVars

\* worker w: the thread starts and evaluates its range.
WorkerStart(w) ==
    /\ thr[w].pc = "start"
    /\ LET t == ForLoop(thr[w], StepByStart(w))
       IN /\ thr' = [thr EXCEPT ![w] = t]
          /\ senders' = IF t.pc = "done" THEN Drop(senders) ELSE senders
    /\ UNCHANGED <<urls, config, pc, i, rxAlive, chan, statuses, probes, output>>
    /\ UNCHANGED <<now, timing>>
    /\ UNCHANGED auxVars

\* worker w, in check_website: one GET returns; a response returns the Ok record,
\* an error is remembered and the loop goes on.
\* The GET blocks for d units of time and ends in r.
Get(w, r, d) ==
    /\ thr[w].pc = "probe"
    /\ LET t == thr[w]
           log == Append(probes[t.j], r)
           at == now + d
       IN /\ probes' = [probes EXCEPT ![t.j] = log]
          /\ now' = at
          /\ timing' = [timing EXCEPT ![t.j] = [spent |-> @.spent + d, done |-> at]]
          /\ thr' = [thr EXCEPT ![w] =
                IF r.ok THEN OnResponse(t, r.code, at) ELSE OnError(t, r.desc, log, at)]
    /\ UNCHANGED <<urls, config, pc, i, senders, rxAlive, chan, statuses, output>>
    /\ UNCHANGED auxVars

\* The GET of a run of the whole pool and of a sequential run (time is not
\* followed there: every GET takes 0 units), and of a timed sequential run.
Durations == {1, 2}
Attempt(w) == \E r \in RunResults : Get(w, r, 0)
CwAttempt(w) == \E r \in RawResults : Get(w, r, 0)
TimedAttempt(w) == \E r \in RunResults : \E d \in Durations : Get(w, r, d)
\* The GET of a run started from a command line: the network answers.
ArgAttempt(w) == Get(w, Responded(200), 0)

\* worker w: tx.send(status).expect(..), then the next iteration of the for loop.
Send(w) ==
    /\ thr[w].pc = "send"
    /\ IF rxAlive
       THEN LET t == AfterSend(thr[w])
            IN /\ chan' = ChanSend(chan, thr[w].rec[1])
               /\ thr' = [thr EXCEPT ![w] = t]
               /\ senders' = IF t.pc = "done" THEN Drop(senders) ELSE senders
       ELSE /\ thr' = [thr EXCEPT ![w].pc = "panicked"]
            /\ senders' = Drop(senders)
            /\ chan' = chan
    /\ UNCHANGED <<urls, config, pc, i, rxAlive, statuses, probes, output>>
    /\ UNCHANGED <<now, timing>>
    /\ UNCHANGED auxVars

MainNext == Spawn \/ DropTx \/ Recv \/ CollectEnd \/ WriteOutput
WorkerNext(w) == WorkerStart(w) \/ Attempt(w) \/ Send(w)

\* ------------------------------------------------------- the specification
UrlLists == UNION {[1 .. n -> Urls] : n \in 0 .. MaxTargets}

Init ==
    /\ urls \in UrlLists
    /\ config \in [workers : 0 .. MaxWorkers, retries : 0 .. MaxRetries]
    /\ pc = "spawn"
    /\ i = 0
    /\ senders = 1
    /\ rxAlive = TRUE
    /\ chan = <<>>
    /\ statuses = <<>>
    /\ thr = [w \in 0 .. (config.workers - 1) |-> Idle]
    /\ probes = [j \in 0 .. (Len(urls) - 1) |-> <<>>]
    /\ output = <<>>
    /\ now = 0
    /\ timing = [j \in 0 .. (Len(urls) - 1) |-> [spent |-> 0, done |-> 0]]
    /\ pn = 0
    /\ pw = 1
    /\ cursor = <<>>
    /\ visited = <<>>
    /\ args = <<>>
    /\ parsed = None
    /\ host = [par |-> 1, file |-> None]

Next ==
    \/ Spawn
    \/ DropTx
    \/ Recv
    \/ CollectEnd
    \/ WriteOutput
    \/ \E w \in Workers : WorkerStart(w)
    \/ \E w \in Workers : Attempt(w)
    \/ \E w \in Workers : Send(w)

Spec == Init /\ [][Next]_vars

\* Threads are scheduled by the operating system: each one that can take a step
\* eventually does.
Fairness ==
    /\ WF_vars(MainNext)
    /\ \A w \in 0 .. (MaxWorkers - 1) : WF_vars(w \in Workers /\ WorkerNext(w))

\* The fair runs draw their lists from one URL: which URL a target is decides
\* nothing about which steps a run takes.
FairInit ==
    /\ Init
    /\ \A n \in 1 .. Len(urls) : urls[n] = "a.test"

FairSpec == FairInit /\ [][Next]_vars /\ Fairness

\* The sequential runs: one worker, every result the GET may end in, and every
\* retry count up to past the word's width.
CwInit ==
    /\ urls \in UNION {[1 .. n -> Urls] : n \in 1 .. MaxCwTargets}
    /\ config \in [workers : {1}, retries : 0 .. MaxCwRetries]
    /\ pc = "spawn"
    /\ i = 0
    /\ senders = 1
    /\ rxAlive = TRUE
    /\ chan = <<>>
    /\ statuses = <<>>
    /\ thr = [w \in 0 .. (config.workers - 1) |-> Idle]
    /\ probes = [j \in 0 .. (Len(urls) - 1) |-> <<>>]
    /\ output = <<>>
    /\ now = 0
    /\ timing = [j \in 0 .. (Len(urls) - 1) |-> [spent |-> 0, done |-> 0]]
    /\ pn = 0
    /\ pw = 1
    /\ cursor = <<>>
    /\ visited = <<>>
    /\ args = <<>>
    /\ parsed = None
    /\ host = [par |-> 1, file |-> None]

CwNext ==
    \/ Spawn
    \/ DropTx
    \/ Recv
    \/ CollectEnd
    \/ WriteOutput
    \/ \E w \in Workers : WorkerStart(w)
    \/ \E w \in Workers : CwAttempt(w)
    \/ \E w \in Workers : Send(w)

CwSpec == CwInit /\ [][CwNext]_vars

\* The timed sequential runs: as the sequential runs, every GET taking 1 or 2
\* units of time.
ClockNext ==
    \/ Spawn
    \/ DropTx
    \/ Recv
    \/ CollectEnd
    \/ WriteOutput
    \/ \E w \in Workers : WorkerStart(w)
    \/ \E w \in Workers : TimedAttempt(w)
    \/ \E w \in Workers : Send(w)

ClockSpec == CwInit /\ [][ClockNext]_vars

\* The runs with retry counts past the word's width: one worker, one target.
WideInit ==
    /\ urls = <<"a.test">>
    /\ config \in [workers : {1}, retries : 0 .. (2 ^ WordBits + MaxOver)]
    /\ pc = "spawn"
    /\ i = 0
    /\ senders = 1
    /\ rxAlive = TRUE
    /\ chan = <<>>
    /\ statuses = <<>>
    /\ thr = [w \in 0 .. (config.workers - 1) |-> Idle]
    /\ probes = [j \in 0 .. (Len(urls) - 1) |-> <<>>]
    /\ output = <<>>
    /\ now = 0
    /\ timing = [j \in 0 .. (Len(urls) - 1) |-> [spent |-> 0, done |-> 0]]
    /\ pn = 0
    /\ pw = 1
    /\ cursor = <<>>
    /\ visited = <<>>
    /\ args = <<>>
    /\ parsed = None
    /\ host = [par |-> 1, file |-> None]

WideSpec == WideInit /\ [][Next]_vars

\* The striding alone: every worker's iterator (w..len).step_by(workers), stepped
\* until it is exhausted, for lists and worker counts larger than the runs above.
PartWorkers == 0 .. (pw - 1)

PartStep(w) ==
    /\ StepByHasNext(cursor[w], pn)
    /\ visited' = [visited EXCEPT ![w] = Append(@, cursor[w])]
    /\ cursor' = [cursor EXCEPT ![w] = StepByNext(@, pw)]
    /\ UNCHANGED <<pn, pw>>
    /\ UNCHANGED runVars
    /\ UNCHANGED argVars

PartInit ==
    /\ pn \in 0 .. MaxPartTargets
    /\ pw \in 1 .. MaxPartWorkers
    /\ cursor = [w \in 0 .. (pw - 1) |-> StepByStart(w)]
    /\ visited = [w \in 0 .. (pw - 1) |-> <<>>]
    /\ urls = <<>>
    /\ config = [workers |-> 0, retries |-> 0]
    /\ pc = "spawn"
    /\ i = 0
    /\ senders = 1
    /\ rxAlive = TRUE
    /\ chan = <<>>
    /\ statuses = <<>>
    /\ thr = <<>>
    /\ probes = <<>>
    /\ output = <<>>
    /\ now = 0
    /\ timing = <<>>
    /\ args = <<>>
    /\ parsed = None
    /\ host = [par |-> 1, file |-> None]

PartNext == \E w \in PartWorkers : PartStep(w)

PartSpec == PartInit /\ [][PartNext]_vars

\* The runs from the command line: every command line of up to MaxArgs arguments
\* over ArgTokens, and the one of test_parse_args_valid, on every host.
ArgTokens ==
    {FlagFile, FlagWorkers, FlagTimeout, FlagRetries, <<"-", "-", "v">>,
     <<"0">>, <<"2">>, <<"a", ".", "t">>}
ProgramName == <<"p">>
TestArgs ==
    <<ProgramName, FlagWorkers, <<"4">>, FlagTimeout, <<"1", "0">>, FlagRetries, <<"3">>,
      <<"h", ".", "c">>>>
ArgLists ==
    {<<ProgramName>> \o a : a \in UNION {[1 .. n -> ArgTokens] : n \in 0 .. MaxArgs}}
        \cup {TestArgs}
FileContents == {None, Some(<<<<" ", "b", ".", "t", " ">>, <<>>, <<" ", " ">>>>)}

ArgInit ==
    /\ args \in ArgLists
    /\ host \in [par : {1, 2}, file : FileContents]
    /\ parsed = None
    /\ pc = "args"
    /\ urls = <<>>
    /\ config = [workers |-> 0, retries |-> 0]
    /\ i = 0
    /\ senders = 0
    /\ rxAlive = FALSE
    /\ chan = <<>>
    /\ statuses = <<>>
    /\ thr = <<>>
    /\ probes = <<>>
    /\ output = <<>>
    /\ now = 0
    /\ timing = <<>>
    /\ pn = 0
    /\ pw = 1
    /\ cursor = <<>>
    /\ visited = <<>>

ArgNext ==
    \/ ParseArgs
    \/ Startup
    \/ Spawn
    \/ DropTx
    \/ Recv
    \/ CollectEnd
    \/ WriteOutput
    \/ \E w \in Workers : WorkerStart(w)
    \/ \E w \in Workers : ArgAttempt(w)
    \/ \E w \in Workers : Send(w)

ArgSpec == ArgInit /\ [][ArgNext]_vars

\* ================================================================ properties
\* Every record in existence: held by a worker, queued in the channel, collected.
Held == {thr[w].rec[1] : w \in {v \in Workers : thr[v].rec # None}}
Queued == {chan[n] : n \in 1 .. Len(chan)}
Collected == {statuses[n] : n \in 1 .. Len(statuses)}
Targets == 0 .. (Len(urls) - 1)
CollectedFor(j) == {n \in 1 .. Len(statuses) : statuses[n].idx = j}
CollectorFinished == pc \in {"write", "done"}

\* C1: for every list of N targets and every W >= 1, under every interleaving,
\* once the run completes the collected list holds exactly N records, exactly one
\* per target index, each with that target's URL: no duplicate, no omission.
C1_ExactlyOneRecordPerTarget ==
    (config.workers >= 1 /\ CollectorFinished) =>
        /\ Len(statuses) = Len(urls)
        /\ \A j \in Targets :
              /\ Cardinality(CollectedFor(j)) = 1
              /\ \A n \in CollectedFor(j) : statuses[n].url = urls[j + 1]

\* C1's case: two workers, three targets two of which are the same URL, the run
\* complete, the records collected out of target order.
C1_Witness ==
    /\ pc = "done"
    /\ config.workers = 2
    /\ Len(urls) = 3
    /\ urls[1] = urls[3]
    /\ urls[1] # urls[2]
    /\ Len(statuses) = 3
    /\ statuses[1].idx = 1
    /\ statuses[2].idx = 0

\* The set of indices yielded to worker w (striding alone).
VisitedSet(w) == {visited[w][n] : n \in 1 .. Len(visited[w])}
Exhausted == \A w \in PartWorkers : ~StepByHasNext(cursor[w], pn)

\* C2: for every N >= 0 and W >= 1 the index sets the workers visit are pairwise
\* disjoint and, once every iterator is exhausted, their union is exactly [0, N);
\* a worker w >= N visits nothing, and N = 5, W = 2 gives {0,2,4} and {1,3}.
C2_StridingIsPartition ==
    /\ \A w \in PartWorkers :
          /\ VisitedSet(w) \subseteq 0 .. (pn - 1)
          /\ Cardinality(VisitedSet(w)) = Len(visited[w])
          /\ (w >= pn => visited[w] = <<>>)
    /\ \A w1 \in PartWorkers : \A w2 \in PartWorkers :
          w1 # w2 => VisitedSet(w1) \cap VisitedSet(w2) = {}
    /\ Exhausted => UNION {VisitedSet(w) : w \in PartWorkers} = 0 .. (pn - 1)
    /\ (Exhausted /\ pn = 5 /\ pw = 2) =>
          (visited[0] = <<0, 2, 4>> /\ visited[1] = <<1, 3>>)

\* C2's case: five targets, two workers, both iterators exhausted.
C2_Witness ==
    /\ pn = 5
    /\ pw = 2
    /\ Exhausted
    /\ Len(visited[0]) = 3
    /\ Len(visited[1]) = 2

\* C3: the collector's loop ends only after every worker has finished its last
\* target and released its sender and main's own sender has been dropped: never
\* has the collector finished while a worker has a target unprocessed or unsent.
C3_CollectorEndsAfterWorkers ==
    CollectorFinished =>
        /\ i = config.workers
        /\ senders = 0
        /\ chan = <<>>
        /\ \A w \in Workers : thr[w].pc = "done"
        /\ \A w \in Workers : \A j \in Targets :
              j % config.workers = w => CollectedFor(j) # {}

\* C3's case: the collector has just finished a run of two workers and three targets.
C3_Witness ==
    /\ pc = "write"
    /\ config.workers = 2
    /\ Len(urls) = 3
    /\ \A w \in Workers : thr[w].pc = "done"

\* C4: for W >= 1 and any N (N = 0 and W > N included), every GET returning, under
\* fair scheduling every worker terminates, the channel closes, the collector
\* terminates and the output is written: the run never deadlocks.
C4_RunTerminates ==
    (config.workers >= 1) =>
        <>(/\ pc = "done"
           /\ senders = 0
           /\ \A w \in Workers : thr[w].pc = "done"
           /\ Len(output) = Len(urls))

\* C4's case: more workers than targets, the output written.
C4_Witness ==
    /\ pc = "done"
    /\ config.workers = 2
    /\ Len(urls) = 1
    /\ Len(output) = 1
    /\ \A w \in Workers : thr[w].pc = "done"

\* C5 as stated: with a worker count of 0 the producer side is never closed and
\* the collector blocks forever, so the output is never written.
C5_ZeroWorkersBlocksForever ==
    (config.workers = 0) => ~CollectorFinished

\* C5, amended: with a worker count of 0 no worker is spawned and nothing is ever
\* sent; drop(tx) releases the only sender, so the channel is closed, the
\* collector's loop can end at once, and the collection and the output are empty
\* whatever N is.
C5_ZeroWorkersEmptyOutput ==
    (config.workers = 0) =>
        /\ i = 0
        /\ Workers = {}
        /\ chan = <<>>
        /\ statuses = <<>>
        /\ (pc # "spawn" => senders = 0)
        /\ (pc = "collect" => ENABLED CollectEnd)
        /\ (pc = "done" => output = <<>>)

\* C5's case: no worker, three targets, the (empty) output written.
C5_Witness ==
    /\ config.workers = 0
    /\ Len(urls) = 3
    /\ pc = "done"
    /\ output = <<>>

\* -------------------------------------------------------- check_website
AllRecords == Held \cup Queued \cup Collected
RecordsFor(j) == {r \in AllRecords : r.idx = j}
Probing(j) == \E w \in Workers : thr[w].pc = "probe" /\ thr[w].j = j
AllFailed(log) == \A p \in 1 .. Len(log) : ~log[p].ok
Last(log) == log[Len(log)]

\* C6: check_website with retries = R on a target whose every attempt fails makes
\* exactly R + 1 GETs, one after the other, and then returns: never more, and it
\* has returned a record exactly when the R + 1 are made (one GET for R = 0).
C6_ExactlyRetriesPlusOneAttempts ==
    \A j \in Targets :
        AllFailed(probes[j]) =>
            /\ Len(probes[j]) <= Retries + 1
            /\ (Len(probes[j]) = Retries + 1) <=> (RecordsFor(j) # {})
            /\ (Len(probes[j]) = Retries + 1) => ~Probing(j)
            /\ \A w \in Workers :
                  (thr[w].pc = "probe" /\ thr[w].j = j) => thr[w].k = Len(probes[j])

\* C6's case: retries = 3, four failed GETs, the call has returned.
C6_Witness ==
    /\ Retries = 3
    /\ Len(probes[0]) = 4
    /\ AllFailed(probes[0])
    /\ RecordsFor(0) # {}

\* C7: a GET that fails K times (0 <= K <= R) and then responds with code c makes
\* check_website return Ok(c) after exactly K + 1 GETs: the first response ends
\* the call, no GET follows it; and after K <= R failures the next GET is made.
C7_FirstResponseIsTerminal ==
    /\ \A j \in Targets : \A p \in 1 .. Len(probes[j]) :
          probes[j][p].ok =>
              /\ p = Len(probes[j])
              /\ p <= Retries + 1
              /\ ~Probing(j)
              /\ RecordsFor(j) # {}
              /\ \A r \in RecordsFor(j) : r.action_status = Ok(probes[j][p].code)
    /\ \A j \in Targets :
          (AllFailed(probes[j]) /\ 1 <= Len(probes[j]) /\ Len(probes[j]) <= Retries) =>
              Probing(j)

\* C7's case: retries = 2, two failures, then a 200 at the last allowed attempt.
C7_Witness ==
    /\ config.retries = 2
    /\ probes[0] = <<TransportError("timeout"), TransportError("refused"), Responded(200)>>
    /\ Len(statuses) = 1
    /\ statuses[1].action_status = Ok(200)

\* C8 as stated: when all R + 1 attempts fail the outcome is Failure and its
\* message equals the last attempt's error description.
C8_MessageEqualsLastDescription ==
    \A j \in Targets :
        (AllFailed(probes[j]) /\ Len(probes[j]) = Retries + 1) =>
            \A r \in RecordsFor(j) :
                /\ ~r.action_status.ok
                /\ r.action_status.msg = Last(probes[j]).desc

\* C8, amended: when all R + 1 attempts fail the outcome is Failure and its
\* message is "Error: " followed by the last attempt's error description, not an
\* earlier attempt's; and a Failure is returned in no other case.
C8_MessageIsPrefixedLastDescription ==
    /\ \A j \in Targets :
          (AllFailed(probes[j]) /\ Len(probes[j]) = Retries + 1) =>
              /\ RecordsFor(j) # {}
              /\ \A r \in RecordsFor(j) :
                    /\ ~r.action_status.ok
                    /\ r.action_status.msg = "Error: " \o Last(probes[j]).desc
    /\ \A r \in AllRecords :
          ~r.action_status.ok =>
              (AllFailed(probes[r.idx]) /\ Len(probes[r.idx]) = Retries + 1)

\* C8's case: retries = 1, attempt 1 times out, attempt 2 is refused.
C8_Witness ==
    /\ config.retries = 1
    /\ probes[0] = <<TransportError("timeout"), TransportError("refused")>>
    /\ Len(statuses) = 1
    /\ statuses[1].action_status = Err("Error: refused")

\* C9: whenever a GET gets a response, whatever its code (2xx, 4xx, 5xx), the
\* outcome is Ok with that code, never Err; no status class triggers a retry; and
\* the record's url is the URL the call was given.
C9_AnyResponseIsSuccess ==
    /\ \A r \in AllRecords : r.url = urls[r.idx + 1]
    /\ \A j \in Targets :
          (probes[j] # <<>> /\ Last(probes[j]).ok) =>
              /\ Cardinality(RecordsFor(j)) = 1
              /\ \A r \in RecordsFor(j) :
                    /\ r.url = urls[j + 1]
                    /\ r.action_status = Ok(Last(probes[j]).code)
    /\ \A j \in Targets : \A c \in StatusCodes :
          (probes[j] # <<>> /\ Last(probes[j]) = Responded(c)) => ~Probing(j)

\* C9's case: the first GET is answered with a 500.
C9_Witness ==
    /\ probes[0] = <<Responded(500)>>
    /\ Retries >= 1
    /\ Len(statuses) = 1
    /\ statuses[1].action_status = Ok(500)
    /\ statuses[1].url = urls[1]

\* ------------------------------------------------------ failures in the run
\* The outcome the GETs made for a target determine.
Determined(log) ==
    IF Last(log).ok THEN Ok(Last(log).code) ELSE Err("Error: " \o Last(log).desc)

\* C10: a target whose every attempt fails never aborts the run nor affects
\* another target: no thread panics, a worker ends only once each of its indices
\* has its record, and at the end every target has exactly one record, with the
\* outcome its own GETs determine.
C10_FailureIsContained ==
    /\ \A w \in Workers : thr[w].pc # "panicked"
    /\ \A w \in Workers :
          thr[w].pc = "done" =>
              \A j \in Targets : j % config.workers = w => RecordsFor(j) # {}
    /\ (config.workers >= 1 /\ CollectorFinished) =>
          \A j \in Targets :
              /\ probes[j] # <<>>
              /\ Cardinality(CollectedFor(j)) = 1
              /\ \A n \in CollectedFor(j) :
                    statuses[n].action_status = Determined(probes[j])

\* C10's case: two workers, three targets; target 0 fails on every attempt, and
\* target 2 (same worker) and target 1 (the other worker) get their 200.
C10_Witness ==
    /\ pc = "done"
    /\ config.workers = 2
    /\ config.retries = 1
    /\ Len(urls) = 3
    /\ probes[0] = <<TransportError("timeout"), TransportError("timeout")>>
    /\ probes[1] = <<Responded(200)>>
    /\ probes[2] = <<TransportError("timeout"), Responded(200)>>
    /\ \E n \in CollectedFor(0) : ~statuses[n].action_status.ok
    /\ \E n \in CollectedFor(2) : statuses[n].action_status = Ok(200)

\* ------------------------------------------------------- the command line
NumericFlags == {FlagWorkers, FlagTimeout, FlagRetries}
KnownFlags == NumericFlags \cup {FlagFile}

\* The command line names no file and no URL: --file does not occur, and every
\* argument that is not written as a flag is the value of a numeric flag.
NeitherFileNorUrl(a) ==
    \A n \in 2 .. Len(a) :
        /\ a[n] # FlagFile
        /\ ~StartsWithDashes(a[n]) => (n > 2 /\ a[n - 1] \in NumericFlags)

\* A startup error: parse_args returned Err, or the --file path cannot be read.
StartupError ==
    /\ parsed # None
    /\ \/ ~parsed[1].ok
       \/ (parsed[1].config.file # None /\ host.file = None)

\* C11: a command line with neither --file nor a URL makes parse_args return an
\* error, and so do a missing flag value, an unparseable number and an unknown
\* flag; on every startup error (these, or an unreadable file) the run aborts with
\* no worker spawned and no output written, and takes no further step.
C11_StartupErrorAborts ==
    /\ (parsed # None /\ NeitherFileNorUrl(args)) => ~parsed[1].ok
    /\ (parsed # None /\ Len(args) = 2 /\ args[2] \in KnownFlags) => ~parsed[1].ok
    /\ (parsed # None /\ Len(args) >= 2 /\ StartsWithDashes(args[2])
            /\ args[2] \notin KnownFlags) => ~parsed[1].ok
    /\ (parsed # None /\ Len(args) >= 3 /\ args[2] \in NumericFlags
            /\ args[3] \notin {<<"0">>, <<"2">>, <<"3">>, <<"4">>, <<"1", "0">>})
          => ~parsed[1].ok
    /\ (parsed # None /\ ~parsed[1].ok) => pc = "panic"
    /\ StartupError =>
          /\ pc \in {"startup", "panic"}
          /\ i = 0
          /\ thr = <<>>
          /\ senders = 0
          /\ chan = <<>>
          /\ output = <<>>
    /\ pc = "panic" => (StartupError /\ ~ENABLED ArgNext)

\* C11's case: the command line of test_parse_args_missing_url (a worker count
\* and nothing else) has been parsed and the run has aborted.
C11_Witness ==
    /\ args = <<ProgramName, FlagWorkers, <<"2">>>>
    /\ parsed # None
    /\ ~parsed[1].ok
    /\ pc = "panic"

\* The text of a status code, as the output is to show it.
CodeText(c) == CASE c = 200 -> "200" [] c = 404 -> "404" [] c = 500 -> "500"

\* C12: in the written output the status field of each element is the status
\* code as text when the record's outcome is Ok, and the record's error message
\* when it is Err.
C12_StatusFieldIsCodeOrMessage ==
    pc = "done" =>
        /\ Len(output) = Len(statuses)
        /\ \A n \in 1 .. Len(statuses) :
              output[n].status =
                  IF statuses[n].action_status.ok
                  THEN CodeText(statuses[n].action_status.code)
                  ELSE statuses[n].action_status.msg

\* A command line in which every flag has a valid value: every argument written
\* as a flag is one of the four flags and is followed by a value that is not
\* written as a flag, a number for the numeric flags.
Numerals == {<<"0">>, <<"2">>, <<"3">>, <<"4">>, <<"1", "0">>}
NumeralValue(a) ==
    CASE a = <<"0">> -> 0 [] a = <<"2">> -> 2 [] a = <<"3">> -> 3 [] a = <<"4">> -> 4
      [] a = <<"1", "0">> -> 10
IsFlagAt(a, n) == StartsWithDashes(a[n])
IsValueAt(a, n) == n > 2 /\ IsFlagAt(a, n - 1)
EveryFlagValid(a) ==
    \A n \in 2 .. Len(a) :
        IsFlagAt(a, n) =>
            /\ a[n] \in KnownFlags
            /\ n < Len(a)
            /\ ~IsFlagAt(a, n + 1)
            /\ (a[n] \in NumericFlags => a[n + 1] \in Numerals)

\* The arguments that are neither flags nor values, in command-line order.
RECURSIVE PositionalFrom(_, _)
PositionalFrom(a, n) ==
    IF n > Len(a) THEN <<>>
    ELSE IF IsFlagAt(a, n) \/ IsValueAt(a, n) THEN PositionalFrom(a, n + 1)
         ELSE <<a[n]>> \o PositionalFrom(a, n + 1)

\* The value given after the last occurrence of a numeric flag, or the default.
Occurrences(a, flag) == {n \in 2 .. Len(a) : a[n] = flag}
GivenOrDefault(a, flag, default) ==
    IF Occurrences(a, flag) = {} THEN default
    ELSE NumeralValue(a[(CHOOSE n \in Occurrences(a, flag) :
                            \A m \in Occurrences(a, flag) : m <= n) + 1])

ReturnsGivenValues ==
    /\ parsed[1].ok
    /\ parsed[1].config.workers = GivenOrDefault(args, FlagWorkers, host.par)
    /\ parsed[1].config.timeout_secs = GivenOrDefault(args, FlagTimeout, 5)
    /\ parsed[1].config.retries = GivenOrDefault(args, FlagRetries, 3)
    /\ parsed[1].config.urls = PositionalFrom(args, 2)

\* C13 as stated: whenever every flag has a valid value, parse_args succeeds and
\* returns the given values (timeout 5, retries 3 when absent) and the non-flag
\* arguments, in order, as urls.
C13_ValidFlagsAlwaysParse ==
    (parsed # None /\ EveryFlagValid(args)) => ReturnsGivenValues

\* C13, amended: whenever every flag has a valid value and the command line
\* names a --file or at least one URL, parse_args succeeds and returns the values
\* given after the last --workers, --timeout and --retries (timeout 5, retries 3,
\* workers the host's parallelism when absent) and the non-flag arguments, in
\* order, as urls; with neither a --file nor a URL it returns an error.
C13_ValidFlagsAndTargetParse ==
    (parsed # None /\ EveryFlagValid(args)) =>
        IF Occurrences(args, FlagFile) # {} \/ PositionalFrom(args, 2) # <<>>
        THEN ReturnsGivenValues
        ELSE ~parsed[1].ok

\* C13's case: the command line of test_parse_args_valid, parsed.
C13_Witness ==
    /\ args = TestArgs
    /\ parsed # None
    /\ parsed[1].ok
    /\ parsed[1].config.workers = 4
    /\ parsed[1].config.timeout_secs = 10
    /\ parsed[1].config.retries = 3
    /\ parsed[1].config.urls = <<<<"h", ".", "c">>>>

\* ----------------------------------------------------- order and ownership
\* Everything sent so far, in the order it was sent: the channel is FIFO.
SendOrder == statuses \o chan
SentCount(j) == Cardinality({n \in 1 .. Len(SendOrder) : SendOrder[n].idx = j})
HeldCount(j) ==
    Cardinality({w \in Workers : thr[w].rec # None /\ thr[w].rec[1].idx = j})
AssignedTo(w) == {j \in Targets : j % config.workers = w}

\* C14: each worker goes through its assigned indices in strictly ascending
\* order and sends exactly one record per assigned target: every assigned index
\* below its current one is sent once, the current and later ones are not sent,
\* later ones are not started, and once it is done all are sent once; so the
\* record of j is sent before the first GET of j + W.
C14_WorkerAscendingOncePerTarget ==
    /\ \A w \in Workers :
          LET t == thr[w]
          IN CASE t.pc \in {"probe", "send"} ->
                    /\ t.j \in AssignedTo(w)
                    /\ (t.pc = "send") <=> (HeldCount(t.j) = 1)
                    /\ \A j \in AssignedTo(w) :
                          /\ j < t.j => SentCount(j) = 1
                          /\ j >= t.j => SentCount(j) = 0
                          /\ j > t.j => (probes[j] = <<>> /\ HeldCount(j) = 0)
               [] t.pc = "done" -> \A j \in AssignedTo(w) : SentCount(j) = 1
               [] OTHER -> \A j \in AssignedTo(w) : SentCount(j) = 0 /\ probes[j] = <<>>
    /\ \A j \in Targets :
          (j >= config.workers /\ probes[j] # <<>>) => SentCount(j - config.workers) = 1
    /\ \A m \in 1 .. Len(SendOrder) : \A n \in 1 .. Len(SendOrder) :
          (m < n /\ SendOrder[m].idx % config.workers = SendOrder[n].idx % config.workers)
              => SendOrder[m].idx < SendOrder[n].idx

\* C14's case: worker 0 of two has sent the record of index 0 and is at the
\* first GET of index 2.
C14_Witness ==
    /\ config.workers = 2
    /\ Len(urls) = 3
    /\ thr[0].pc = "probe"
    /\ thr[0].j = 2
    /\ probes[2] = <<>>
    /\ SentCount(0) = 1

\* C15: in every reachable state each target index has at most one record in
\* existence, those held by a worker, queued in the channel and collected counted
\* together; the collected list never holds more than N records and a step only
\* ever extends it.
C15_AtMostOneRecordListGrows ==
    /\ [](/\ \A j \in Targets : HeldCount(j) + SentCount(j) <= 1
          /\ Len(statuses) <= Len(urls))
    /\ [][/\ Len(statuses') >= Len(statuses)
          /\ SubSeq(statuses', 1, Len(statuses)) = statuses]_vars

\* C15's case: three records in existence at once, one held by a worker, one
\* queued and one collected.
C15_Witness ==
    /\ Len(urls) = 3
    /\ Len(statuses) = 1
    /\ Len(chan) = 1
    /\ \E w \in Workers : thr[w].pc = "send"

\* ------------------------------------------------------------------ time
\* C16: the elapsed clock of check_website is started once, before the first GET,
\* and read once, after the last one: the recorded elapsed time is at least the
\* sum of the durations of all the GETs made for the target, and the timestamp is
\* not before the last GET completed; while a call is under way its start is not
\* after the start of its first GET.
C16_ElapsedCoversAllAttempts ==
    /\ \A r \in AllRecords :
          /\ r.response_time >= timing[r.idx].spent
          /\ r.timestamp >= timing[r.idx].done
          /\ r.timestamp - r.response_time <= timing[r.idx].done - timing[r.idx].spent
    /\ \A w \in Workers :
          (thr[w].pc = "probe" /\ probes[thr[w].j] # <<>>) =>
              thr[w].start <= timing[thr[w].j].done - timing[thr[w].j].spent

\* C16's case: two failed GETs of 2 and 1 units and an answered one of 2 units;
\* the record shows 5 units.
C16_Witness ==
    /\ Len(probes[0]) = 3
    /\ Last(probes[0]).ok
    /\ timing[0].spent = 5
    /\ Len(statuses) = 1
    /\ statuses[1].response_time = 5
    /\ statuses[1].timestamp = 5

\* ------------------------------------------------------------- the channel
\* C17: whenever a worker is about to send, or may still come to send, the
\* receiver is alive: the main thread drops it only when no sender is left; so
\* no send fails and no worker is ever in the "Failed to send result" panic.
C17_SendNeverFails ==
    /\ \A w \in Workers :
          /\ thr[w].pc # "panicked"
          /\ thr[w].pc \in {"start", "probe", "send"} => rxAlive
    /\ ~rxAlive => senders = 0
    /\ pc = "spawn" => senders >= 1

\* C17's case: a record is queued, the receiver is draining, and another worker
\* is at its send.
C17_Witness ==
    /\ pc = "collect"
    /\ rxAlive
    /\ chan # <<>>
    /\ \E w \in Workers : thr[w].pc = "send" /\ thr[w].j > chan[1].idx

\* C18: the records of one worker are in the collected list in ascending order
\* of target index, whatever the interleaving with the records of the other
\* workers.
C18_SameWorkerRecordsAscend ==
    \A m, n \in 1 .. Len(statuses) :
        (/\ m < n
         /\ config.workers > 0
         /\ statuses[m].idx % config.workers = statuses[n].idx % config.workers)
            => statuses[m].idx < statuses[n].idx

\* C18's case: two workers, three targets; worker 1's record is collected before
\* those of worker 0, which are in ascending order.
C18_Witness ==
    /\ config.workers = 2
    /\ Len(statuses) = 3
    /\ statuses[1].idx = 1
    /\ statuses[2].idx = 0
    /\ statuses[3].idx = 2

\* The workers with a GET in flight.
InFlight == {w \in Workers : thr[w].pc = "probe"}
Min(a, b) == IF a <= b THEN a ELSE b

\* C19: a worker has at most one GET in flight, so at most min(W, N) are in
\* flight at once; the index a worker probes is one of its own (index mod W is
\* its number), no two workers probe the same index, and a GET of index j is
\* only ever made by worker j mod W.
C19_ProbesOnlyByOwner ==
    /\ [](/\ Cardinality(InFlight) <= Min(config.workers, Len(urls))
          /\ \A w \in InFlight : thr[w].j \in Targets /\ thr[w].j % config.workers = w
          /\ \A v, w \in InFlight : thr[v].j = thr[w].j => v = w)
    /\ [][\A j \in Targets :
            probes'[j] # probes[j] =>
                /\ config.workers > 0
                /\ thr[j % config.workers].pc = "probe"
                /\ thr[j % config.workers].j = j
                /\ Len(probes'[j]) = Len(probes[j]) + 1]_vars

\* C19's case: two workers, three targets, both workers with a GET in flight,
\* worker 0 on its second index.
C19_Witness ==
    /\ config.workers = 2
    /\ Len(urls) = 3
    /\ InFlight = {0, 1}
    /\ thr[0].j = 2
    /\ thr[1].j = 1

\* ----------------------------------------------------------- the narrowing
\* C20: the bound of check_website's loop is the configured retries modulo
\* 2^WordBits: at most that many GETs plus one are made for a target, a target
\* all of whose GETs fail gets its record exactly when that many plus one are
\* made, and for a configured value below 2^WordBits that is retries + 1.
C20_BoundIsRetriesNarrowed ==
    LET bound == (config.retries % (2 ^ WordBits)) + 1
    IN /\ config.retries < 2 ^ WordBits => bound = config.retries + 1
       /\ \A j \in Targets :
             /\ Len(probes[j]) <= bound
             /\ AllFailed(probes[j]) =>
                   /\ (Len(probes[j]) = bound) <=> (RecordsFor(j) # {})
                   /\ (Len(probes[j]) < bound) =>
                         (thr[0].pc \in {"unspawned", "start"} \/ Probing(j))

\* C20's case: retries = 2^WordBits + 1 is narrowed to 1: two failed GETs, and
\* the Err record is there.
C20_Witness ==
    /\ config.retries = 2 ^ WordBits + 1
    /\ Len(probes[0]) = 2
    /\ AllFailed(probes[0])
    /\ RecordsFor(0) # {}

====
